---- MODULE Spec2Model ----
(***************************************************************************)
(* A model of the fixed-capacity strings of chieftain0/StaticString:       *)
(*   include/StaticString.h  (sstr_*: uint32_t length, the header main.cpp *)
(*                            uses)                                        *)
(*   include/StackString.h   (ss_*:   uint8_t length, the older variant)   *)
(* One string s1 is driven through every public function of the header     *)
(* chosen at start-up; the functions that take a second string get it as   *)
(* an operand in any state of OtherStrings.  Every function is translated  *)
(* loop by loop; each store and each load of the character buffer is       *)
(* recorded, so that bounds claims are claims about the translated code.   *)
(***************************************************************************)
EXTENDS Integers, Sequences, FiniteSets, TLC

(***************************************************************************)
(* Bounds of the model.                                                    *)
(***************************************************************************)
\* SSTR_MAX_LENGTH / SS_MAX_LENGTH scaled down: the buffer has CAP + 1 cells.
CAP == 3
\* Index arguments range over 0 .. CAP + IndexSlack (values beyond the buffer).
IndexSlack == 2
\* How many wild (out-of-buffer) loads a runaway scan is followed through.
WildReads == 2

(***************************************************************************)
(* Program constants.                                                      *)
(***************************************************************************)
NUL == 0
TAB == 9
LF == 10
CR == 13
SPACE == 32
UPPER_A == 65
UPPER_Z == 90
LOWER_A == 97
LOWER_Z == 122
\* uint32_t 0xFFFFFFFF, held as the 32-bit pattern TLC's integers can carry
\* (its two's-complement reading); (int)UINT32_MAX is this same pattern.
UINT32_MAX == -1

SSTR_MAX_LENGTH == CAP
\* (SS_MAX_DATA_TYPE)(-1): the largest value of the length type itself.
SS_MAX_LENGTH == CAP

\* The bytes the model draws from: the terminator, two whitespace bytes and
\* one letter in each case.
Byte == {NUL, TAB, SPACE, UPPER_A, LOWER_A}
\* The bytes callers pass as character arguments.
ArgByte == {NUL, TAB, SPACE, LOWER_A}
\* The bytes of external C strings (never the terminator).
SrcByte == {SPACE, LOWER_A}
Indices == 0 .. CAP + IndexSlack

IS_WHITESPACE(c) == c = SPACE \/ c = TAB \/ c = LF \/ c = CR

(***************************************************************************)
(* The struct: a buffer of CAP + 1 chars and a length.  StackString names  *)
(* the buffer stack_string; the model keeps it in the same field.          *)
(***************************************************************************)
StaticString == [static_string : [0 .. CAP -> Byte], string_length : 0 .. CAP]

\* An external C string: a pointer that is NULL, or the bytes before the
\* terminator.
NULL == [null |-> TRUE, bytes |-> <<>>]
CStr(q) == [null |-> FALSE, bytes |-> q]
RECURSIVE SeqsUpTo(_, _)
SeqsUpTo(S, n) ==
    IF n = 0 THEN {<<>>}
    ELSE LET shorter == SeqsUpTo(S, n - 1)
         IN  shorter \cup {Append(q, b) : q \in {x \in shorter : Len(x) = n - 1}, b \in S}
Sources == {CStr(q) : q \in SeqsUpTo(SrcByte, CAP + 1)}
\* cstr[i]: the i-th char, the terminator at i = strlen.
CharAt(cstr, i) == IF i < Len(cstr.bytes) THEN cstr.bytes[i + 1] ELSE NUL

(***************************************************************************)
(* A function at work: the struct plus the stores (w) and loads (r) it has *)
(* made in the buffer, by index.                                           *)
(***************************************************************************)
Work(s) == [static_string |-> s.static_string, string_length |-> s.string_length,
            w |-> {}, r |-> {}]
Str(m) == [static_string |-> m.static_string, string_length |-> m.string_length]
\* static_string[i] = v
Store(m, i, v) ==
    [m EXCEPT !.static_string = IF i \in DOMAIN @ THEN [@ EXCEPT ![i] = v] ELSE @,
              !.w = @ \cup {i}]
\* the value of static_string[i] (a load outside the buffer is recorded by Read)
At(m, i) == IF i \in DOMAIN m.static_string THEN m.static_string[i] ELSE NUL
Read(m, i) == [m EXCEPT !.r = @ \cup {i}]
SetLen(m, n) == [m EXCEPT !.string_length = n]
\* static_string[dst] = static_string[src]
Move(m, dst, src) == Store(Read(m, src), dst, At(m, src))
\* What a call gives back: the struct at work, the returned value, and the
\* undefined behaviour it ran into ("none" when the call is well defined).
Result(m, v) == [m |-> m, ret |-> v, ub |-> "none"]
Undefined(m, kind) == [m |-> m, ret |-> 0, ub |-> kind]
\* uint32_t arithmetic at the one place it wraps, and the cast to int.
U32Dec(i) == IF i = 0 THEN UINT32_MAX ELSE i - 1
ToInt(i) == i

(***************************************************************************)
(* StaticString.h                                                          *)
(***************************************************************************)
sstr_init(m) == Result(Store(SetLen(m, 0), 0, NUL), 0)

\* Mutant: the capacity test off by one (i <= SSTR_MAX_LENGTH).
RECURSIVE sstr_from_cstr_loop_off_by_one(_, _, _)
sstr_from_cstr_loop_off_by_one(m, cstr, i) ==
    IF i <= SSTR_MAX_LENGTH /\ CharAt(cstr, i) # NUL
    THEN sstr_from_cstr_loop_off_by_one(Store(m, i, CharAt(cstr, i)), cstr, i + 1)
    ELSE SetLen(Store(m, i, NUL), i)
RECURSIVE sstr_from_cstr_loop(_, _, _)
sstr_from_cstr_loop(m, cstr, i) ==
    IF i < SSTR_MAX_LENGTH /\ CharAt(cstr, i) # NUL
    THEN sstr_from_cstr_loop(Store(m, i, CharAt(cstr, i)), cstr, i + 1)
    ELSE SetLen(Store(m, i, NUL), i)
\* No NULL check: cstr[0] is read through whatever pointer is passed.
sstr_from_cstr(m, cstr) ==
    IF cstr.null THEN Undefined(m, "null_deref")
    ELSE Result(sstr_from_cstr_loop(m, cstr, 0), 0)

RECURSIVE sstr_clear_loop(_, _)
sstr_clear_loop(m, i) ==
    IF i <= SSTR_MAX_LENGTH THEN sstr_clear_loop(Store(m, i, NUL), i + 1) ELSE m
sstr_clear(m) == Result(SetLen(sstr_clear_loop(m, 0), 0), 0)

\* Mutant: the full test off by one (string_length <= SSTR_MAX_LENGTH).
sstr_append_off_by_one(m, character) ==
    IF m.string_length <= SSTR_MAX_LENGTH
    THEN Result(SetLen(Store(Store(m, m.string_length, character),
                             m.string_length + 1, NUL),
                       m.string_length + 1), 1)
    ELSE Result(m, 0)
sstr_append(m, character) ==
    IF m.string_length < SSTR_MAX_LENGTH
    THEN Result(SetLen(Store(Store(m, m.string_length, character),
                             m.string_length + 1, NUL),
                       m.string_length + 1), 1)
    ELSE Result(m, 0)

RECURSIVE sstr_append_cstr_loop(_, _, _)
sstr_append_cstr_loop(m, cstr, i) ==
    IF i < SSTR_MAX_LENGTH - m.string_length /\ CharAt(cstr, i) # NUL
    THEN sstr_append_cstr_loop(Store(m, m.string_length + i, CharAt(cstr, i)), cstr, i + 1)
    ELSE Result(SetLen(Store(m, m.string_length + i, NUL), m.string_length + i), i)
sstr_append_cstr(m, cstr) ==
    IF cstr.null \/ m.string_length >= SSTR_MAX_LENGTH
    THEN Result(m, 0)
    ELSE sstr_append_cstr_loop(m, cstr, 0)

sstr_replace_char_from_index(m, index, character) ==
    IF index >= m.string_length THEN Result(m, 0)
    ELSE Result(Store(m, index, character), 1)

RECURSIVE sstr_replace_all_chars_loop(_, _, _, _, _)
sstr_replace_all_chars_loop(m, old_char, new_char, i, count) ==
    IF i < m.string_length
    THEN IF At(m, i) = old_char
         THEN sstr_replace_all_chars_loop(Store(Read(m, i), i, new_char),
                                          old_char, new_char, i + 1, count + 1)
         ELSE sstr_replace_all_chars_loop(Read(m, i), old_char, new_char, i + 1, count)
    ELSE Result(m, count)
sstr_replace_all_chars(m, old_char, new_char) ==
    sstr_replace_all_chars_loop(m, old_char, new_char, 0, 0)

\* Mutant: the shift stops one cell early (i > index + 1).
RECURSIVE sstr_insert_char_at_loop_short(_, _, _)
sstr_insert_char_at_loop_short(m, index, i) ==
    IF i > index + 1 THEN sstr_insert_char_at_loop_short(Move(m, i, i - 1), index, i - 1)
    ELSE m
RECURSIVE sstr_insert_char_at_loop(_, _, _)
sstr_insert_char_at_loop(m, index, i) ==
    IF i > index THEN sstr_insert_char_at_loop(Move(m, i, i - 1), index, i - 1) ELSE m
\* Mutant: no test for a full string.
sstr_insert_char_at_unguarded(m, index, character) ==
    IF index > m.string_length
    THEN Result(m, 0)
    ELSE LET shifted == sstr_insert_char_at_loop(m, index, m.string_length)
             placed == SetLen(Store(shifted, index, character), m.string_length + 1)
         IN  Result(Store(placed, placed.string_length, NUL), placed.string_length)
sstr_insert_char_at(m, index, character) ==
    IF index > m.string_length \/ m.string_length >= SSTR_MAX_LENGTH
    THEN Result(m, 0)
    ELSE LET shifted == sstr_insert_char_at_loop(m, index, m.string_length)
             placed == SetLen(Store(shifted, index, character), m.string_length + 1)
         IN  Result(Store(placed, placed.string_length, NUL), placed.string_length)

\* Mutant: the shift stops one cell early (i < string_length - 2).
RECURSIVE sstr_remove_at_loop_short(_, _)
sstr_remove_at_loop_short(m, i) ==
    IF i < m.string_length - 2 THEN sstr_remove_at_loop_short(Move(m, i, i + 1), i + 1)
    ELSE m
RECURSIVE sstr_remove_at_loop(_, _)
sstr_remove_at_loop(m, i) ==
    IF i < m.string_length - 1 THEN sstr_remove_at_loop(Move(m, i, i + 1), i + 1) ELSE m
sstr_remove_at(m, index) ==
    IF index >= m.string_length THEN Result(m, m.string_length)
    ELSE LET shifted == sstr_remove_at_loop(m, index)
             cut == SetLen(Store(shifted, m.string_length - 1, NUL), m.string_length - 1)
         IN  Result(cut, cut.string_length)

\* Mutant: the distance of the shift off by one (end - start).
RECURSIVE sstr_remove_range_loop_off_by_one(_, _, _, _)
sstr_remove_range_loop_off_by_one(m, start, end, i) ==
    IF i < m.string_length
    THEN sstr_remove_range_loop_off_by_one(Move(m, i - (end - start), i), start, end, i + 1)
    ELSE m
RECURSIVE sstr_remove_range_loop(_, _, _, _)
sstr_remove_range_loop(m, start, end, i) ==
    IF i < m.string_length
    THEN sstr_remove_range_loop(Move(m, i - (end - start + 1), i), start, end, i + 1)
    ELSE m
sstr_remove_range(m, start, end) ==
    IF start >= m.string_length \/ end >= m.string_length \/ start > end
    THEN Result(m, m.string_length)
    ELSE LET shifted == sstr_remove_range_loop(m, start, end, end + 1)
             cut == SetLen(shifted, m.string_length - (end - start + 1))
         IN  Result(Store(cut, cut.string_length, NUL), cut.string_length)

\* Mutant: the copy reads source[i], not source[start + i].
RECURSIVE sstr_substring_loop_from_zero(_, _, _, _, _)
sstr_substring_loop_from_zero(source, m, alias, start, i) ==
    IF i < m.string_length
    THEN LET from == IF alias THEN At(m, i) ELSE source.static_string[i]
         IN  sstr_substring_loop_from_zero(source, Store(Read(m, i), i, from),
                                           alias, start, i + 1)
    ELSE m

\* sstr_substring(source, dest, start, end).  m is the destination at work;
\* alias says that both pointers name the same struct, so that the loads come
\* from the buffer being written.
RECURSIVE sstr_substring_loop(_, _, _, _, _)
sstr_substring_loop(source, m, alias, start, i) ==
    IF i < m.string_length
    THEN LET from == IF alias THEN At(m, start + i)
                     ELSE IF start + i \in 0 .. CAP THEN source.static_string[start + i]
                     ELSE NUL
         IN  sstr_substring_loop(source, Store(Read(m, start + i), i, from),
                                 alias, start, i + 1)
    ELSE m
sstr_substring(source, m, alias, start, end) ==
    IF start >= source.string_length \/ end >= source.string_length \/ start > end
    THEN Result(m, 0)
    ELSE LET copied == sstr_substring_loop(source, SetLen(m, end - start + 1), alias, start, 0)
         IN  Result(Store(copied, copied.string_length, NUL), 1)

RECURSIVE sstr_trim_trailing_loop(_, _)
sstr_trim_trailing_loop(m, count) ==
    IF m.string_length > 0 /\ IS_WHITESPACE(At(m, m.string_length - 1))
    THEN sstr_trim_trailing_loop(SetLen(Read(m, m.string_length - 1), m.string_length - 1),
                                 count + 1)
    ELSE LET seen == IF m.string_length > 0 THEN Read(m, m.string_length - 1) ELSE m
         IN  Result(Store(seen, m.string_length, NUL), count)
sstr_trim_trailing(m) == sstr_trim_trailing_loop(m, 0)

RECURSIVE sstr_trim_leading_scan(_, _)
sstr_trim_leading_scan(m, offset) ==
    IF offset < m.string_length /\ IS_WHITESPACE(At(m, offset))
    THEN sstr_trim_leading_scan(Read(m, offset), offset + 1)
    ELSE [m |-> IF offset < m.string_length THEN Read(m, offset) ELSE m, offset |-> offset]
\* Mutant: the shift leaves the terminator behind (i < string_length - offset).
RECURSIVE sstr_trim_leading_shift_no_terminator(_, _, _)
sstr_trim_leading_shift_no_terminator(m, offset, i) ==
    IF i < m.string_length - offset
    THEN sstr_trim_leading_shift_no_terminator(Move(m, i, i + offset), offset, i + 1)
    ELSE m
RECURSIVE sstr_trim_leading_shift(_, _, _)
sstr_trim_leading_shift(m, offset, i) ==
    IF i <= m.string_length - offset
    THEN sstr_trim_leading_shift(Move(m, i, i + offset), offset, i + 1)
    ELSE m
sstr_trim_leading(m) ==
    LET scan == sstr_trim_leading_scan(m, 0)
    IN  IF scan.offset > 0
        THEN LET shifted == sstr_trim_leading_shift(scan.m, scan.offset, 0)
             IN  Result(SetLen(shifted, shifted.string_length - scan.offset), scan.offset)
        ELSE Result(scan.m, scan.offset)

sstr_trim(m) ==
    LET leading == sstr_trim_leading(m)
        trailing == sstr_trim_trailing(leading.m)
    IN  Result(trailing.m, leading.ret + trailing.ret)

RECURSIVE sstr_strip_all_whitespace_loop(_, _, _)
sstr_strip_all_whitespace_loop(m, write, read) ==
    IF read < m.string_length
    THEN IF ~IS_WHITESPACE(At(m, read))
         THEN sstr_strip_all_whitespace_loop(Move(m, write, read), write + 1, read + 1)
         ELSE sstr_strip_all_whitespace_loop(Read(m, read), write, read + 1)
    ELSE Result(SetLen(Store(m, write, NUL), write), 0)
sstr_strip_all_whitespace(m) == sstr_strip_all_whitespace_loop(m, 0, 0)

\* sstr_equals(sstr1, sstr2): m is sstr1 at work.
RECURSIVE sstr_equals_loop(_, _, _)
sstr_equals_loop(m, sstr2, i) ==
    IF i < m.string_length
    THEN IF At(m, i) # sstr2.static_string[i]
         THEN Result(Read(m, i), 0)
         ELSE sstr_equals_loop(Read(m, i), sstr2, i + 1)
    ELSE Result(m, 1)
sstr_equals(m, sstr2) ==
    IF m.string_length # sstr2.string_length THEN Result(m, 0)
    ELSE sstr_equals_loop(m, sstr2, 0)

RECURSIVE sstr_equals_cstr_loop(_, _, _)
sstr_equals_cstr_loop(m, cstr, i) ==
    IF i < m.string_length /\ CharAt(cstr, i) # NUL
    THEN IF At(m, i) # CharAt(cstr, i)
         THEN Result(Read(m, i), 0)
         ELSE sstr_equals_cstr_loop(Read(m, i), cstr, i + 1)
    ELSE Result(m, IF i = m.string_length /\ CharAt(cstr, i) = NUL THEN 1 ELSE 0)
sstr_equals_cstr(m, cstr) ==
    IF cstr.null THEN Result(m, 0) ELSE sstr_equals_cstr_loop(m, cstr, 0)

\* The pointer itself is the buffer.
sstr_to_cstr(m) == Result(m, 0)
\* What a reader of the pointer sstr_to_cstr returns sees: the bytes before
\* the first NUL (ending in -1 if the scan runs off the buffer).
RECURSIVE RawViewFrom(_, _)
RawViewFrom(s, i) ==
    IF i \notin DOMAIN s.static_string THEN <<-1>>
    ELSE IF s.static_string[i] = NUL THEN <<>>
    ELSE <<s.static_string[i]>> \o RawViewFrom(s, i + 1)
RawView(s) == RawViewFrom(s, 0)

sstr_pop(m) ==
    IF m.string_length > 0
    THEN LET return_char == At(m, m.string_length - 1)
             taken == Store(Read(m, m.string_length - 1), m.string_length - 1, NUL)
         IN  Result(SetLen(taken, m.string_length - 1), return_char)
    ELSE Result(m, 0)

sstr_truncate(m, new_length) ==
    IF new_length > m.string_length \/ new_length > SSTR_MAX_LENGTH
    THEN Result(m, 0)
    ELSE Result(Store(SetLen(m, new_length), new_length, NUL), 1)

sstr_length(m) == Result(m, m.string_length)

RECURSIVE sstr_reverse_loop(_, _, _)
sstr_reverse_loop(m, i, j) ==
    IF i < j
    THEN LET temp == At(m, i)
             first == Store(Read(Read(m, i), j), i, At(m, j))
         IN  sstr_reverse_loop(Store(first, j, temp), i + 1, j - 1)
    ELSE m
sstr_reverse(m) ==
    IF m.string_length = 0 THEN Result(m, 0)
    ELSE Result(sstr_reverse_loop(m, 0, m.string_length - 1), 0)

\* Mutant: the copy stops one byte early (i < string_length - 1).
RECURSIVE sstr_copy_loop_short(_, _, _)
sstr_copy_loop_short(m, sstr2, i) ==
    IF i < m.string_length - 1
    THEN sstr_copy_loop_short(Store(Read(m, i), i, sstr2.static_string[i]), sstr2, i + 1)
    ELSE m
\* sstr_copy(sstr1, sstr2): m is the destination sstr1 at work.
RECURSIVE sstr_copy_loop(_, _, _)
sstr_copy_loop(m, sstr2, i) ==
    IF i < m.string_length
    THEN sstr_copy_loop(Store(Read(m, i), i, sstr2.static_string[i]), sstr2, i + 1)
    ELSE m
sstr_copy(m, sstr2) ==
    IF sstr2.string_length > SSTR_MAX_LENGTH THEN Result(m, 0)
    ELSE LET copied == sstr_copy_loop(SetLen(m, sstr2.string_length), sstr2, 0)
         IN  Result(Store(copied, copied.string_length, NUL), 0)

RECURSIVE sstr_to_uppercase_loop(_, _, _)
sstr_to_uppercase_loop(m, i, count) ==
    IF i < m.string_length
    THEN IF At(m, i) >= LOWER_A /\ At(m, i) <= LOWER_Z
         THEN sstr_to_uppercase_loop(Store(Read(m, i), i, At(m, i) - (LOWER_A - UPPER_A)),
                                     i + 1, count + 1)
         ELSE sstr_to_uppercase_loop(Read(m, i), i + 1, count)
    ELSE Result(m, count)
sstr_to_uppercase(m) == sstr_to_uppercase_loop(m, 0, 0)

RECURSIVE sstr_to_lowercase_loop(_, _, _)
sstr_to_lowercase_loop(m, i, count) ==
    IF i < m.string_length
    THEN IF At(m, i) >= UPPER_A /\ At(m, i) <= UPPER_Z
         THEN sstr_to_lowercase_loop(Store(Read(m, i), i, At(m, i) + (LOWER_A - UPPER_A)),
                                     i + 1, count + 1)
         ELSE sstr_to_lowercase_loop(Read(m, i), i + 1, count)
    ELSE Result(m, count)
sstr_to_lowercase(m) == sstr_to_lowercase_loop(m, 0, 0)

RECURSIVE sstr_contains_loop(_, _, _, _)
sstr_contains_loop(m, ch, i, count) ==
    IF i < m.string_length
    THEN sstr_contains_loop(Read(m, i), ch, i + 1, IF At(m, i) = ch THEN count + 1 ELSE count)
    ELSE Result(m, count)
sstr_contains(m, ch) == sstr_contains_loop(m, ch, 0, 0)

RECURSIVE sstr_first_index_of_loop(_, _, _)
sstr_first_index_of_loop(m, ch, i) ==
    IF i < m.string_length
    THEN IF At(m, i) = ch THEN Result(Read(m, i), ToInt(i))
         ELSE sstr_first_index_of_loop(Read(m, i), ch, i + 1)
    ELSE Result(m, -1)
sstr_first_index_of(m, ch) == sstr_first_index_of_loop(m, ch, 0)

\* for (uint32_t i = string_length - 1; i >= 0; i--): the test i >= 0 is true
\* of every uint32_t, so the loop has one exit, the match.  Below index 0 the
\* index wraps to UINT32_MAX and the load leaves the buffer.
RECURSIVE sstr_last_index_of_loop(_, _, _)
sstr_last_index_of_loop(m, ch, i) ==
    IF i \notin 0 .. CAP THEN Undefined(Read(m, i), "oob_read")
    ELSE IF At(m, i) = ch THEN Result(Read(m, i), ToInt(i))
    ELSE sstr_last_index_of_loop(Read(m, i), ch, U32Dec(i))
sstr_last_index_of(m, ch) == sstr_last_index_of_loop(m, ch, U32Dec(m.string_length))

(***************************************************************************)
(* StackString.h.  Its counters are SS_MAX_DATA_TYPE (uint8_t), whose      *)
(* largest value is SS_MAX_LENGTH: they count modulo SS_MAX_LENGTH + 1.    *)
(***************************************************************************)
U8(x) == x % (SS_MAX_LENGTH + 1)

ss_init(m) == Result(Store(SetLen(m, 0), 0, NUL), 0)

RECURSIVE ss_from_cstr_loop(_, _, _)
ss_from_cstr_loop(m, cstr, i) ==
    IF i < SS_MAX_LENGTH /\ CharAt(cstr, i) # NUL
    THEN ss_from_cstr_loop(Store(m, i, CharAt(cstr, i)), cstr, U8(i + 1))
    ELSE SetLen(Store(m, i, NUL), i)
ss_from_cstr(m, cstr) ==
    IF cstr.null THEN Undefined(m, "null_deref")
    ELSE Result(ss_from_cstr_loop(m, cstr, 0), 0)

\* i < SS_MAX_LENGTH: the last cell is not part of the loop.
RECURSIVE ss_clear_loop(_, _)
ss_clear_loop(m, i) ==
    IF i < SS_MAX_LENGTH THEN ss_clear_loop(Store(m, i, NUL), U8(i + 1)) ELSE m
ss_clear(m) == Result(SetLen(ss_clear_loop(m, 0), 0), 0)

ss_append(m, character) ==
    IF m.string_length < SS_MAX_LENGTH
    THEN Result(SetLen(Store(Store(m, m.string_length, character),
                             m.string_length + 1, NUL),
                       U8(m.string_length + 1)), 0)
    ELSE Result(m, 0)

RECURSIVE ss_append_cstr_loop(_, _, _)
ss_append_cstr_loop(m, cstr, i) ==
    IF i < SS_MAX_LENGTH - m.string_length /\ CharAt(cstr, i) # NUL
    THEN ss_append_cstr_loop(Store(m, m.string_length + i, CharAt(cstr, i)), cstr, U8(i + 1))
    ELSE Result(SetLen(Store(m, m.string_length + i, NUL), U8(m.string_length + i)), 0)
\* No NULL check and no test for a full string before the loop.
ss_append_cstr(m, cstr) ==
    IF cstr.null THEN Undefined(m, "null_deref")
    ELSE ss_append_cstr_loop(m, cstr, 0)

ss_replace_char_from_index(m, index, character) ==
    IF index >= m.string_length THEN Result(m, 0)
    ELSE Result(Store(m, index, character), 1)

RECURSIVE ss_replace_all_chars_loop(_, _, _, _, _)
ss_replace_all_chars_loop(m, old_char, new_char, i, count) ==
    IF i < m.string_length
    THEN IF At(m, i) = old_char
         THEN ss_replace_all_chars_loop(Store(Read(m, i), i, new_char),
                                        old_char, new_char, U8(i + 1), U8(count + 1))
         ELSE ss_replace_all_chars_loop(Read(m, i), old_char, new_char, U8(i + 1), count)
    ELSE Result(m, count)
ss_replace_all_chars(m, old_char, new_char) ==
    ss_replace_all_chars_loop(m, old_char, new_char, 0, 0)

\* The test is == ' ', not IS_WHITESPACE.
RECURSIVE ss_trim_trailing_loop(_, _)
ss_trim_trailing_loop(m, count) ==
    IF m.string_length > 0 /\ At(m, m.string_length - 1) = SPACE
    THEN ss_trim_trailing_loop(SetLen(Read(m, m.string_length - 1), U8(m.string_length - 1)),
                               U8(count + 1))
    ELSE LET seen == IF m.string_length > 0 THEN Read(m, m.string_length - 1) ELSE m
         IN  Result(Store(seen, m.string_length, NUL), count)
ss_trim_trailing(m) == ss_trim_trailing_loop(m, 0)

RECURSIVE ss_trim_leading_shift(_, _)
ss_trim_leading_shift(m, i) ==
    IF i < m.string_length THEN ss_trim_leading_shift(Move(m, i, i + 1), U8(i + 1)) ELSE m
RECURSIVE ss_trim_leading_loop(_, _)
ss_trim_leading_loop(m, count) ==
    IF m.string_length > 0 /\ IS_WHITESPACE(At(m, 0))
    THEN LET shifted == ss_trim_leading_shift(Read(m, 0), 0)
             cut == Store(shifted, m.string_length - 1, NUL)
         IN  ss_trim_leading_loop(SetLen(cut, U8(m.string_length - 1)), U8(count + 1))
    ELSE Result(IF m.string_length > 0 THEN Read(m, 0) ELSE m, count)
ss_trim_leading(m) == ss_trim_leading_loop(m, 0)

ss_trim(m) ==
    LET leading == ss_trim_leading(m)
        trailing == ss_trim_trailing(leading.m)
    IN  Result(trailing.m, U8(leading.ret + trailing.ret))

RECURSIVE ss_strip_all_whitespace_shift(_, _)
ss_strip_all_whitespace_shift(m, j) ==
    IF j < m.string_length - 1
    THEN ss_strip_all_whitespace_shift(Move(m, j, j + 1), U8(j + 1))
    ELSE m
\* Mutant: no i-- after a removal, the byte shifted into place is skipped.
RECURSIVE ss_strip_all_whitespace_loop_no_step_back(_, _)
ss_strip_all_whitespace_loop_no_step_back(m, i) ==
    IF i < m.string_length
    THEN IF IS_WHITESPACE(At(m, i))
         THEN LET shifted == ss_strip_all_whitespace_shift(Read(m, i), i)
                  cut == Store(shifted, m.string_length - 1, NUL)
              IN  ss_strip_all_whitespace_loop_no_step_back(
                      SetLen(cut, U8(m.string_length - 1)), U8(i + 1))
         ELSE ss_strip_all_whitespace_loop_no_step_back(Read(m, i), U8(i + 1))
    ELSE Result(m, 0)
\* After a removal i-- then the loop's i++: from i = 0 through the largest
\* uint8_t and back.
RECURSIVE ss_strip_all_whitespace_loop(_, _)
ss_strip_all_whitespace_loop(m, i) ==
    IF i < m.string_length
    THEN IF IS_WHITESPACE(At(m, i))
         THEN LET shifted == ss_strip_all_whitespace_shift(Read(m, i), i)
                  cut == Store(shifted, m.string_length - 1, NUL)
              IN  ss_strip_all_whitespace_loop(SetLen(cut, U8(m.string_length - 1)),
                                               U8(U8(i - 1) + 1))
         ELSE ss_strip_all_whitespace_loop(Read(m, i), U8(i + 1))
    ELSE Result(m, 0)
ss_strip_all_whitespace(m) == ss_strip_all_whitespace_loop(m, 0)

RECURSIVE ss_equals_loop(_, _, _)
ss_equals_loop(m, ss2, i) ==
    IF i < m.string_length
    THEN IF At(m, i) # ss2.static_string[i]
         THEN Result(Read(m, i), 0)
         ELSE ss_equals_loop(Read(m, i), ss2, U8(i + 1))
    ELSE Result(m, 1)
ss_equals(m, ss2) ==
    IF m.string_length # ss2.string_length THEN Result(m, 0)
    ELSE ss_equals_loop(m, ss2, 0)

RECURSIVE ss_equals_cstr_loop(_, _, _)
ss_equals_cstr_loop(m, cstr, i) ==
    IF i < m.string_length /\ CharAt(cstr, i) # NUL
    THEN IF At(m, i) # CharAt(cstr, i)
         THEN Result(Read(m, i), 0)
         ELSE ss_equals_cstr_loop(Read(m, i), cstr, U8(i + 1))
    ELSE Result(m, IF i = m.string_length /\ CharAt(cstr, i) = NUL THEN 1 ELSE 0)
\* No NULL check.  On an empty string the loop test stops at i < string_length
\* and the return expression is the first to read cstr[0].
ss_equals_cstr(m, cstr) ==
    IF cstr.null THEN Undefined(m, "null_deref")
    ELSE ss_equals_cstr_loop(m, cstr, 0)

ss_to_cstr(m) == Result(m, 0)

ss_pop(m) ==
    IF m.string_length > 0
    THEN LET return_char == At(m, m.string_length - 1)
             taken == Store(Read(m, m.string_length - 1), m.string_length - 1, NUL)
         IN  Result(SetLen(taken, U8(m.string_length - 1)), return_char)
    ELSE Result(m, 0)

ss_truncate(m, new_length) ==
    IF new_length > m.string_length THEN Result(m, 0)
    ELSE Result(Store(SetLen(m, new_length), new_length, NUL), 1)

ss_length(m) == Result(m, m.string_length)

\* The body is "// TODO".
ss_reverse(m) == Result(m, 0)

RECURSIVE ss_copy_loop(_, _, _)
ss_copy_loop(m, ss2, i) ==
    IF i < m.string_length
    THEN ss_copy_loop(Store(Read(m, i), i, ss2.static_string[i]), ss2, U8(i + 1))
    ELSE m
ss_copy(m, ss2) ==
    IF ss2.string_length > SS_MAX_LENGTH THEN Result(m, 0)
    ELSE LET copied == ss_copy_loop(SetLen(m, ss2.string_length), ss2, 0)
         IN  Result(Store(copied, copied.string_length, NUL), 0)

RECURSIVE ss_to_uppercase_loop(_, _, _)
ss_to_uppercase_loop(m, i, count) ==
    IF i < m.string_length
    THEN IF At(m, i) >= LOWER_A /\ At(m, i) <= LOWER_Z
         THEN ss_to_uppercase_loop(Store(Read(m, i), i, At(m, i) - (LOWER_A - UPPER_A)),
                                   U8(i + 1), U8(count + 1))
         ELSE ss_to_uppercase_loop(Read(m, i), U8(i + 1), count)
    ELSE Result(m, count)
ss_to_uppercase(m) == ss_to_uppercase_loop(m, 0, 0)

RECURSIVE ss_to_lowercase_loop(_, _, _)
ss_to_lowercase_loop(m, i, count) ==
    IF i < m.string_length
    THEN IF At(m, i) >= UPPER_A /\ At(m, i) <= UPPER_Z
         THEN ss_to_lowercase_loop(Store(Read(m, i), i, At(m, i) + (LOWER_A - UPPER_A)),
                                   U8(i + 1), U8(count + 1))
         ELSE ss_to_lowercase_loop(Read(m, i), U8(i + 1), count)
    ELSE Result(m, count)
ss_to_lowercase(m) == ss_to_lowercase_loop(m, 0, 0)

(***************************************************************************)
(* The second string of the two-string functions (main.cpp's s2): at each  *)
(* call the caller has it in one of these states, which sstr_from_cstr     *)
(* produces on a buffer that held zeros or letters before.                 *)
(***************************************************************************)
OtherPattern(n) == [i \in 1 .. n |-> IF i % 2 = 1 THEN LOWER_A ELSE SPACE]
OtherStrings ==
    {Str(sstr_from_cstr(Work([static_string |-> [i \in 0 .. CAP |-> b], string_length |-> 0]),
                        CStr(OtherPattern(n))).m) :
        n \in 0 .. CAP, b \in {NUL, LOWER_A}}
\* The value the second-string variables hold when a call takes no second string.
NoString == [static_string |-> [i \in 0 .. CAP |-> NUL], string_length |-> 0]

(***************************************************************************)
(* The program state.                                                      *)
(***************************************************************************)
VARIABLES
    hdr,        \* which header the program uses: "StaticString" or "StackString"
    s1,         \* the string under operation
    s2,         \* the second string after the last call (NoString: none taken)
    op,         \* the function that was called, "idle" once back in the caller
    args,       \* its arguments
    pre,        \* s1 when it was called
    pre2,       \* the second string when it was called
    ret,        \* the value it returned (0 for a void function)
    returned,   \* FALSE once a call has not come back (the program is gone)
    fault,      \* the undefined behaviour the call ran into, or "none"
    w,          \* the buffer indices the call stored to
    rd,         \* the buffer indices the call loaded from
    appendRun,  \* appends made in a row since s1 was empty (-1: other history)
    undo        \* at a remove_at made right after an insert_char_at at the same
                \* index: s1 before that insert

vars == <<hdr, s1, s2, op, args, pre, pre2, ret, returned, fault, w, rd, appendRun, undo>>

NoArgs == [index |-> 0, end |-> 0, new_length |-> 0, character |-> NUL, new_char |-> NUL,
           cstr |-> NULL, alias |-> FALSE]
NoUndo == [active |-> FALSE, s |-> NoString]
IsAppend(name) == name \in {"sstr_append", "ss_append"}

\* The bookkeeping every call shares.
Called(name, a, after1, before2, after2, u) ==
    /\ s1' = after1
    /\ s2' = after2
    /\ op' = name
    /\ args' = a
    /\ pre' = s1
    /\ pre2' = before2
    /\ appendRun' = IF IsAppend(name)
                    THEN (IF appendRun < 0 THEN -1
                          ELSE IF appendRun > CAP THEN appendRun ELSE appendRun + 1)
                    ELSE (IF after1.string_length = 0 THEN 0 ELSE -1)
    /\ undo' = u
    /\ UNCHANGED hdr

\* A well-defined call on s1 that came back.
Return(name, a, res) ==
    /\ res.ub = "none"
    /\ Called(name, a, Str(res.m), NoString, NoString, NoUndo)
    /\ ret' = res.ret
    /\ returned' = TRUE
    /\ fault' = "none"
    /\ w' = res.m.w
    /\ rd' = res.m.r

\* A well-defined call that read the second string other.
ReturnWith(name, a, res, other) ==
    /\ res.ub = "none"
    /\ Called(name, a, Str(res.m), other, other, NoUndo)
    /\ ret' = res.ret
    /\ returned' = TRUE
    /\ fault' = "none"
    /\ w' = res.m.w
    /\ rd' = res.m.r

\* A well-defined call that read s1 and wrote the second string dest.
ReturnInto(name, a, res, dest) ==
    /\ res.ub = "none"
    /\ Called(name, a, s1, dest, Str(res.m), NoUndo)
    /\ ret' = res.ret
    /\ returned' = TRUE
    /\ fault' = "none"
    /\ w' = res.m.w
    /\ rd' = res.m.r

\* Undefined behaviour that ends the program (a trap on the bad access).
Trap(name, a, res) ==
    /\ res.ub # "none"
    /\ Called(name, a, Str(res.m), NoString, NoString, NoUndo)
    /\ ret' = 0
    /\ returned' = FALSE
    /\ fault' = res.ub
    /\ w' = res.m.w
    /\ rd' = res.m.r

\* Undefined behaviour the build survives: the call came back with res.
Survive(name, a, res, kind) ==
    /\ Called(name, a, Str(res.m), NoString, NoString, NoUndo)
    /\ ret' = res.ret
    /\ returned' = TRUE
    /\ fault' = kind
    /\ w' = res.m.w
    /\ rd' = res.m.r

\* Calls are made from the caller, by a program that is still running.
IsSstr == returned /\ op = "idle" /\ hdr = "StaticString"
IsSs == returned /\ op = "idle" /\ hdr = "StackString"

\* Control is back in the caller: the record of the call is dropped, the
\* string stays as the call left it.
Resume ==
    /\ returned
    /\ op # "idle"
    /\ op' = "idle"
    /\ args' = NoArgs
    /\ pre' = s1
    /\ s2' = NoString
    /\ pre2' = NoString
    /\ ret' = 0
    /\ fault' = "none"
    /\ w' = {}
    /\ rd' = {}
    /\ undo' = NoUndo
    /\ UNCHANGED <<hdr, s1, returned, appendRun>>

\* StaticString s1; sstr_init(&s1): the cells init does not write keep
\* whatever the stack held.
Init ==
    /\ hdr \in {"StaticString", "StackString"}
    /\ \E g \in [0 .. CAP -> Byte] :
          s1 = Str(sstr_init(Work([static_string |-> g, string_length |-> 0])).m)
    /\ s2 = NoString
    /\ op = "idle"
    /\ args = NoArgs
    /\ pre = s1
    /\ pre2 = NoString
    /\ ret = 0
    /\ returned = TRUE
    /\ fault = "none"
    /\ w = {}
    /\ rd = {}
    /\ appendRun = 0
    /\ undo = NoUndo

(***************************************************************************)
(* The calls of StaticString.h.                                            *)
(***************************************************************************)
SstrInit == IsSstr /\ Return("sstr_init", NoArgs, sstr_init(Work(s1)))

\* A NULL cstr is read through: the access traps, or address 0 is readable
\* memory and the call copies whatever C string lies there.
SstrFromCstr ==
    /\ IsSstr
    /\ \E c \in Sources \cup {NULL} :
          LET a == [NoArgs EXCEPT !.cstr = c]
              res == sstr_from_cstr(Work(s1), c)
          IN  \/ Return("sstr_from_cstr", a, res)
              \/ Trap("sstr_from_cstr", a, res)
              \/ /\ res.ub = "null_deref"
                 /\ \E there \in Sources :
                       Survive("sstr_from_cstr", a, sstr_from_cstr(Work(s1), there),
                               "null_deref")

SstrClear == IsSstr /\ Return("sstr_clear", NoArgs, sstr_clear(Work(s1)))

SstrAppend ==
    /\ IsSstr
    /\ \E c \in ArgByte :
          Return("sstr_append", [NoArgs EXCEPT !.character = c], sstr_append(Work(s1), c))

SstrAppendCstr ==
    /\ IsSstr
    /\ \E c \in Sources \cup {NULL} :
          Return("sstr_append_cstr", [NoArgs EXCEPT !.cstr = c],
                 sstr_append_cstr(Work(s1), c))

SstrReplaceCharFromIndex ==
    /\ IsSstr
    /\ \E i \in Indices, c \in ArgByte :
          Return("sstr_replace_char_from_index",
                 [NoArgs EXCEPT !.index = i, !.character = c],
                 sstr_replace_char_from_index(Work(s1), i, c))

SstrReplaceAllChars ==
    /\ IsSstr
    /\ \E c \in ArgByte, d \in ArgByte :
          Return("sstr_replace_all_chars",
                 [NoArgs EXCEPT !.character = c, !.new_char = d],
                 sstr_replace_all_chars(Work(s1), c, d))

SstrInsertCharAt ==
    /\ IsSstr
    /\ \E i \in Indices, c \in ArgByte :
          Return("sstr_insert_char_at", [NoArgs EXCEPT !.index = i, !.character = c],
                 sstr_insert_char_at(Work(s1), i, c))

SstrRemoveAt ==
    /\ IsSstr
    /\ \E i \in Indices :
          Return("sstr_remove_at", [NoArgs EXCEPT !.index = i], sstr_remove_at(Work(s1), i))

\* sstr_insert_char_at(&s1, index, c); sstr_remove_at(&s1, index); the second
\* call made with the record of the first still at hand.
SstrRemoveAtAfterInsert ==
    /\ returned /\ hdr = "StaticString"
    /\ op = "sstr_insert_char_at" /\ ret # 0
    /\ LET res == sstr_remove_at(Work(s1), args.index)
       IN  /\ Called("sstr_remove_at", [NoArgs EXCEPT !.index = args.index], Str(res.m),
                     NoString, NoString, [active |-> TRUE, s |-> pre])
           /\ ret' = res.ret
           /\ returned' = TRUE
           /\ fault' = "none"
           /\ w' = res.m.w
           /\ rd' = res.m.r

SstrRemoveRange ==
    /\ IsSstr
    /\ \E i \in Indices, j \in Indices :
          Return("sstr_remove_range", [NoArgs EXCEPT !.index = i, !.end = j],
                 sstr_remove_range(Work(s1), i, j))

\* sstr_substring(&s1, &s2, start, end)
SstrSubstringFrom ==
    /\ IsSstr
    /\ \E i \in Indices, j \in Indices, dest \in OtherStrings :
          ReturnInto("sstr_substring", [NoArgs EXCEPT !.index = i, !.end = j],
                     sstr_substring(s1, Work(dest), FALSE, i, j), dest)

\* sstr_substring(&s2, &s1, start, end)
SstrSubstringInto ==
    /\ IsSstr
    /\ \E i \in Indices, j \in Indices, source \in OtherStrings :
          ReturnWith("sstr_substring_into", [NoArgs EXCEPT !.index = i, !.end = j],
                     sstr_substring(source, Work(s1), FALSE, i, j), source)

\* sstr_substring(&s1, &s1, start, end)
SstrSubstringAlias ==
    /\ IsSstr
    /\ \E i \in Indices, j \in Indices :
          Return("sstr_substring_alias",
                 [NoArgs EXCEPT !.index = i, !.end = j, !.alias = TRUE],
                 sstr_substring(s1, Work(s1), TRUE, i, j))

SstrTrimTrailing ==
    IsSstr /\ Return("sstr_trim_trailing", NoArgs, sstr_trim_trailing(Work(s1)))
SstrTrimLeading ==
    IsSstr /\ Return("sstr_trim_leading", NoArgs, sstr_trim_leading(Work(s1)))
SstrTrim == IsSstr /\ Return("sstr_trim", NoArgs, sstr_trim(Work(s1)))
SstrStripAllWhitespace ==
    IsSstr /\ Return("sstr_strip_all_whitespace", NoArgs, sstr_strip_all_whitespace(Work(s1)))

\* sstr_equals(&s1, &s2)
SstrEquals ==
    /\ IsSstr
    /\ \E other \in OtherStrings \cup {s1} :
          ReturnWith("sstr_equals", NoArgs, sstr_equals(Work(s1), other), other)

SstrEqualsCstr ==
    /\ IsSstr
    /\ \E c \in Sources \cup {NULL} :
          Return("sstr_equals_cstr", [NoArgs EXCEPT !.cstr = c],
                 sstr_equals_cstr(Work(s1), c))

SstrToCstr == IsSstr /\ Return("sstr_to_cstr", NoArgs, sstr_to_cstr(Work(s1)))
SstrPop == IsSstr /\ Return("sstr_pop", NoArgs, sstr_pop(Work(s1)))

SstrTruncate ==
    /\ IsSstr
    /\ \E n \in Indices :
          Return("sstr_truncate", [NoArgs EXCEPT !.new_length = n],
                 sstr_truncate(Work(s1), n))

SstrLength == IsSstr /\ Return("sstr_length", NoArgs, sstr_length(Work(s1)))
SstrReverse == IsSstr /\ Return("sstr_reverse", NoArgs, sstr_reverse(Work(s1)))

\* sstr_copy(&s1, &s2)
SstrCopy ==
    /\ IsSstr
    /\ \E other \in OtherStrings :
          ReturnWith("sstr_copy", NoArgs, sstr_copy(Work(s1), other), other)

\* sstr_copy(&s2, &s1)
SstrCopyTo ==
    /\ IsSstr
    /\ \E dest \in OtherStrings :
          ReturnInto("sstr_copy_to", NoArgs, sstr_copy(Work(dest), s1), dest)

\* sstr_copy(&s1, &s2); sstr_equals(&s1, &s2): the comparison made with the
\* two strings as the copy left them.
SstrEqualsAfterCopy ==
    /\ returned /\ hdr = "StaticString"
    /\ op = "sstr_copy"
    /\ ReturnWith("sstr_equals_copied", NoArgs, sstr_equals(Work(s1), s2), s2)

\* sstr_copy(&s2, &s1); sstr_equals(&s2, &s1)
SstrEqualsAfterCopyTo ==
    /\ returned /\ hdr = "StaticString"
    /\ op = "sstr_copy_to"
    /\ ReturnInto("sstr_equals_copied_to", NoArgs, sstr_equals(Work(s2), s1), s2)

\* sstr_equals(&s1, &s2) said yes; sstr_equals_cstr(&s1, sstr_to_cstr(&s2)):
\* the C string handed over is what lies in s2's buffer before its first NUL.
SstrEqualsCstrOfToCstr ==
    /\ returned /\ hdr = "StaticString"
    /\ op = "sstr_equals" /\ ret = 1
    /\ LET c == CStr(RawView(s2))
       IN  ReturnWith("sstr_equals_cstr_to_cstr", [NoArgs EXCEPT !.cstr = c],
                      sstr_equals_cstr(Work(s1), c), s2)

SstrToUppercase == IsSstr /\ Return("sstr_to_uppercase", NoArgs, sstr_to_uppercase(Work(s1)))
SstrToLowercase == IsSstr /\ Return("sstr_to_lowercase", NoArgs, sstr_to_lowercase(Work(s1)))

SstrContains ==
    /\ IsSstr
    /\ \E c \in ArgByte :
          Return("sstr_contains", [NoArgs EXCEPT !.character = c], sstr_contains(Work(s1), c))

SstrFirstIndexOf ==
    /\ IsSstr
    /\ \E c \in ArgByte :
          Return("sstr_first_index_of", [NoArgs EXCEPT !.character = c],
                 sstr_first_index_of(Work(s1), c))

\* When the scan runs off the front of the buffer the load is wild: it traps,
\* or the k-th wild byte happens to match and its index comes back as an int.
SstrLastIndexOf ==
    /\ IsSstr
    /\ \E c \in ArgByte :
          LET a == [NoArgs EXCEPT !.character = c]
              res == sstr_last_index_of(Work(s1), c)
          IN  \/ Return("sstr_last_index_of", a, res)
              \/ Trap("sstr_last_index_of", a, res)
              \/ /\ res.ub = "oob_read"
                 /\ \E k \in 1 .. WildReads :
                       Survive("sstr_last_index_of", a,
                               [res EXCEPT !.ret = ToInt(UINT32_MAX - (k - 1))], "oob_read")

(***************************************************************************)
(* The calls of StackString.h.  Index arguments are SS_MAX_DATA_TYPE.      *)
(***************************************************************************)
SsIndices == 0 .. SS_MAX_LENGTH

SsInit == IsSs /\ Return("ss_init", NoArgs, ss_init(Work(s1)))

SsFromCstr ==
    /\ IsSs
    /\ \E c \in Sources \cup {NULL} :
          LET a == [NoArgs EXCEPT !.cstr = c]
              res == ss_from_cstr(Work(s1), c)
          IN  \/ Return("ss_from_cstr", a, res)
              \/ Trap("ss_from_cstr", a, res)
              \/ /\ res.ub = "null_deref"
                 /\ \E there \in Sources :
                       Survive("ss_from_cstr", a, ss_from_cstr(Work(s1), there), "null_deref")

SsClear == IsSs /\ Return("ss_clear", NoArgs, ss_clear(Work(s1)))

SsAppend ==
    /\ IsSs
    /\ \E c \in ArgByte :
          Return("ss_append", [NoArgs EXCEPT !.character = c], ss_append(Work(s1), c))

SsAppendCstr ==
    /\ IsSs
    /\ \E c \in Sources \cup {NULL} :
          LET a == [NoArgs EXCEPT !.cstr = c]
              res == ss_append_cstr(Work(s1), c)
          IN  \/ Return("ss_append_cstr", a, res)
              \/ Trap("ss_append_cstr", a, res)
              \/ /\ res.ub = "null_deref"
                 /\ \E there \in Sources :
                       Survive("ss_append_cstr", a, ss_append_cstr(Work(s1), there),
                               "null_deref")

SsReplaceCharFromIndex ==
    /\ IsSs
    /\ \E i \in SsIndices, c \in ArgByte :
          Return("ss_replace_char_from_index", [NoArgs EXCEPT !.index = i, !.character = c],
                 ss_replace_char_from_index(Work(s1), i, c))

SsReplaceAllChars ==
    /\ IsSs
    /\ \E c \in ArgByte, d \in ArgByte :
          Return("ss_replace_all_chars", [NoArgs EXCEPT !.character = c, !.new_char = d],
                 ss_replace_all_chars(Work(s1), c, d))

SsTrimTrailing == IsSs /\ Return("ss_trim_trailing", NoArgs, ss_trim_trailing(Work(s1)))
SsTrimLeading == IsSs /\ Return("ss_trim_leading", NoArgs, ss_trim_leading(Work(s1)))
SsTrim == IsSs /\ Return("ss_trim", NoArgs, ss_trim(Work(s1)))
SsStripAllWhitespace ==
    IsSs /\ Return("ss_strip_all_whitespace", NoArgs, ss_strip_all_whitespace(Work(s1)))

SsEquals ==
    /\ IsSs
    /\ \E other \in OtherStrings \cup {s1} :
          ReturnWith("ss_equals", NoArgs, ss_equals(Work(s1), other), other)

\* Through a NULL cstr: a trap, or the C string that lies at address 0.
SsEqualsCstr ==
    /\ IsSs
    /\ \E c \in Sources \cup {NULL} :
          LET a == [NoArgs EXCEPT !.cstr = c]
              res == ss_equals_cstr(Work(s1), c)
          IN  \/ Return("ss_equals_cstr", a, res)
              \/ Trap("ss_equals_cstr", a, res)
              \/ /\ res.ub = "null_deref"
                 /\ \E there \in Sources :
                       Survive("ss_equals_cstr", a, ss_equals_cstr(Work(s1), there),
                               "null_deref")

SsToCstr == IsSs /\ Return("ss_to_cstr", NoArgs, ss_to_cstr(Work(s1)))
SsPop == IsSs /\ Return("ss_pop", NoArgs, ss_pop(Work(s1)))

SsTruncate ==
    /\ IsSs
    /\ \E n \in SsIndices :
          Return("ss_truncate", [NoArgs EXCEPT !.new_length = n], ss_truncate(Work(s1), n))

SsLength == IsSs /\ Return("ss_length", NoArgs, ss_length(Work(s1)))
SsReverse == IsSs /\ Return("ss_reverse", NoArgs, ss_reverse(Work(s1)))

SsCopy ==
    /\ IsSs
    /\ \E other \in OtherStrings :
          ReturnWith("ss_copy", NoArgs, ss_copy(Work(s1), other), other)

SsCopyTo ==
    /\ IsSs
    /\ \E dest \in OtherStrings :
          ReturnInto("ss_copy_to", NoArgs, ss_copy(Work(dest), s1), dest)

SsToUppercase == IsSs /\ Return("ss_to_uppercase", NoArgs, ss_to_uppercase(Work(s1)))
SsToLowercase == IsSs /\ Return("ss_to_lowercase", NoArgs, ss_to_lowercase(Work(s1)))

Next ==
    \/ SstrInit \/ SstrFromCstr \/ SstrClear \/ SstrAppend \/ SstrAppendCstr
    \/ SstrReplaceCharFromIndex \/ SstrReplaceAllChars
    \/ SstrInsertCharAt \/ SstrRemoveAt \/ SstrRemoveAtAfterInsert \/ SstrRemoveRange
    \/ SstrSubstringFrom \/ SstrSubstringInto \/ SstrSubstringAlias
    \/ SstrTrimTrailing \/ SstrTrimLeading \/ SstrTrim \/ SstrStripAllWhitespace
    \/ SstrEquals \/ SstrEqualsCstr \/ SstrToCstr \/ SstrPop \/ SstrTruncate
    \/ SstrLength \/ SstrReverse \/ SstrCopy \/ SstrCopyTo
    \/ SstrEqualsAfterCopy \/ SstrEqualsAfterCopyTo \/ SstrEqualsCstrOfToCstr
    \/ SstrToUppercase \/ SstrToLowercase
    \/ SstrContains \/ SstrFirstIndexOf \/ SstrLastIndexOf
    \/ SsInit \/ SsFromCstr \/ SsClear \/ SsAppend \/ SsAppendCstr
    \/ SsReplaceCharFromIndex \/ SsReplaceAllChars
    \/ SsTrimTrailing \/ SsTrimLeading \/ SsTrim \/ SsStripAllWhitespace
    \/ SsEquals \/ SsEqualsCstr \/ SsToCstr \/ SsPop \/ SsTruncate
    \/ SsLength \/ SsReverse \/ SsCopy \/ SsCopyTo
    \/ SsToUppercase \/ SsToLowercase
    \/ Resume

Spec == Init /\ [][Next]_vars

(***************************************************************************)
(* What the claims speak of.                                               *)
(***************************************************************************)
Min(a, b) == IF a < b THEN a ELSE b
\* The logical content: buffer[0 .. length).
Content(s) == [i \in 1 .. s.string_length |-> s.static_string[i - 1]]
Terminated(s) ==
    /\ s.string_length \in 0 .. CAP
    /\ s.static_string[s.string_length] = NUL
InBuffer(S) == S \subseteq 0 .. CAP
IsFromCstr(name) == name \in {"sstr_from_cstr", "ss_from_cstr"}
IsAppendCstr(name) == name \in {"sstr_append_cstr", "ss_append_cstr"}

\* C1: after any sequence of calls, on either header, length <= CAP and
\* buffer[length] is the terminator 0; the same holds of the second string a
\* call wrote.
C1_LengthAndTerminator == Terminated(s1) /\ Terminated(s2)
\* A trim_leading that moved content, and the terminator with it, to the front.
C1_Witness ==
    /\ op = "sstr_trim_leading" /\ ret > 0
    /\ s1.string_length > 0 /\ s1.string_length + ret = pre.string_length

\* C2: every store of every call, whatever the indices and lengths passed,
\* goes to a buffer index in 0 .. CAP.
C2_StoresInBuffer == InBuffer(w)
\* An insert into a string one short of full: the terminator lands on the last
\* cell, CAP.
C2_Witness ==
    /\ op = "sstr_insert_char_at" /\ pre.string_length = CAP - 1
    /\ ret = CAP /\ CAP \in w

\* C3: lastIndexOf returns the greatest index below length holding the byte,
\* -1 if there is none (the empty string included), and loads only from
\* indices in [0, length).
LastIndexIn(s, ch) ==
    LET hits == {i \in 0 .. s.string_length - 1 : s.static_string[i] = ch}
    IN  IF hits = {} THEN -1 ELSE CHOOSE i \in hits : \A k \in hits : k <= i
C3_LastIndexOf ==
    op = "sstr_last_index_of" =>
        /\ returned
        /\ fault = "none"
        /\ ret = LastIndexIn(pre, args.character)
        /\ rd \subseteq 0 .. pre.string_length - 1

\* C4: every call, on any reachable string with any index, length or byte
\* arguments, comes back, and its loops stay inside the buffer.  (Calls
\* handed a NULL source are left to the claims about NULL.)
C4_EveryCallReturns ==
    fault # "null_deref" => returned /\ fault = "none" /\ InBuffer(rd) /\ InBuffer(w)

\* C5: fromSource on a zero-terminated source sets length to
\* min(len(s), CAP), makes content and raw view the first min(len(s), CAP)
\* bytes of s, and stores nothing past the buffer.
C5_FromCstr ==
    IsFromCstr(op) /\ ~args.cstr.null =>
        LET n == Min(Len(args.cstr.bytes), CAP)
        IN  /\ returned
            /\ s1.string_length = n
            /\ Content(s1) = SubSeq(args.cstr.bytes, 1, n)
            /\ RawView(s1) = SubSeq(args.cstr.bytes, 1, n)
            /\ InBuffer(w)
\* A source one byte longer than the capacity, cut to CAP bytes.
C5_Witness ==
    /\ op = "sstr_from_cstr" /\ ~args.cstr.null
    /\ Len(args.cstr.bytes) = CAP + 1 /\ s1.string_length = CAP

\* C6: from an empty string the first CAP appends each succeed (sstr_append
\* returns 1, the length grows by one, the byte is stored last, the bytes
\* before it stay); every further append, and any append on a full string,
\* returns 0 and leaves length and buffer as they were.
AppendSucceeded ==
    /\ s1.string_length = pre.string_length + 1
    /\ Content(s1) = Append(Content(pre), args.character)
    /\ op = "sstr_append" => ret = 1
AppendRefused ==
    /\ s1 = pre
    /\ op = "sstr_append" => ret = 0
C6_Append ==
    IsAppend(op) =>
        /\ appendRun \in 1 .. CAP => AppendSucceeded /\ s1.string_length = appendRun
        /\ appendRun > CAP => AppendRefused
        /\ pre.string_length = CAP => AppendRefused
        /\ pre.string_length < CAP => AppendSucceeded
\* The append after CAP appends in a row from the empty string: refused.
C6_Witness ==
    /\ op = "sstr_append" /\ appendRun = CAP + 1
    /\ ret = 0 /\ s1.string_length = CAP

\* C7: appendSequence appends the first min(len(bytes), CAP - length) bytes
\* after the content, which it leaves alone, and returns that count; given a
\* NULL source it returns 0 and changes neither length nor buffer.
C7_AppendCstr ==
    IsAppendCstr(op) =>
        IF args.cstr.null
        THEN returned /\ fault = "none" /\ s1 = pre /\ ret = 0
        ELSE LET n == Min(Len(args.cstr.bytes), CAP - pre.string_length)
             IN  /\ s1.string_length = pre.string_length + n
                 /\ Content(s1) = Content(pre) \o SubSeq(args.cstr.bytes, 1, n)
                 /\ op = "sstr_append_cstr" => ret = n

\* C8: insertAt succeeds exactly when index <= length < CAP: the bytes from
\* index on move right by one, the byte is stored at index, the length grows
\* by one and is returned (>= 1); otherwise it returns 0 and leaves length and
\* every buffer byte as they were.
C8_InsertCharAt ==
    op = "sstr_insert_char_at" =>
        IF args.index <= pre.string_length /\ pre.string_length < CAP
        THEN /\ s1.string_length = pre.string_length + 1
             /\ ret = s1.string_length /\ ret >= 1
             /\ Content(s1) = SubSeq(Content(pre), 1, args.index)
                                \o <<args.character>>
                                \o SubSeq(Content(pre), args.index + 1, pre.string_length)
        ELSE ret = 0 /\ s1 = pre
\* An insert in front of two or more bytes.
C8_Witness ==
    /\ op = "sstr_insert_char_at" /\ ret = pre.string_length + 1
    /\ args.index + 2 <= pre.string_length

\* C9: insertAt(i, b) with i <= length < CAP followed by removeAt(i) gives
\* back the original length and content.
C9_InsertThenRemove ==
    undo.active =>
        /\ s1.string_length = undo.s.string_length
        /\ Content(s1) = Content(undo.s)
\* The pair made in the middle of a string.
C9_Witness ==
    /\ undo.active /\ op = "sstr_remove_at"
    /\ 0 < args.index /\ args.index < s1.string_length

\* C10: removeRange(start, end) with start <= end < length leaves
\* old[0 .. start) followed by old(end .. length), with length
\* length - (end - start + 1), which it returns; when start > end or
\* end >= length it changes nothing and returns the length.
C10_RemoveRange ==
    op = "sstr_remove_range" =>
        IF args.index <= args.end /\ args.end < pre.string_length
        THEN /\ Content(s1) = SubSeq(Content(pre), 1, args.index)
                                \o SubSeq(Content(pre), args.end + 2, pre.string_length)
             /\ s1.string_length = pre.string_length - (args.end - args.index + 1)
             /\ ret = s1.string_length
        ELSE s1 = pre /\ ret = pre.string_length
\* A range cut out of the middle: bytes remain on both sides.
C10_Witness ==
    /\ op = "sstr_remove_range" /\ 0 < args.index /\ args.index <= args.end
    /\ args.end + 1 < pre.string_length /\ ret < pre.string_length

\* The bytes the specification calls whitespace.
Whitespace == {SPACE, TAB, LF, CR}
IsTrim(name) == name \in {"sstr_trim", "ss_trim"}
\* q from its first to its last non-whitespace byte.
Trimmed(q) ==
    LET keep == {i \in 1 .. Len(q) : q[i] \notin Whitespace}
    IN  IF keep = {} THEN <<>>
        ELSE SubSeq(q, CHOOSE i \in keep : \A k \in keep : i <= k,
                       CHOOSE i \in keep : \A k \in keep : k <= i)

\* C11: trim leaves the content from its first to its last non-whitespace
\* byte (space, tab, newline, carriage return), empty if there is none, and
\* returns the number of bytes it removed.
C11_Trim ==
    IsTrim(op) =>
        /\ Content(s1) = Trimmed(Content(pre))
        /\ ret = pre.string_length - s1.string_length

IsStrip(name) == name \in {"sstr_strip_all_whitespace", "ss_strip_all_whitespace"}
NotWhitespace(b) == b \notin Whitespace
\* q with every whitespace byte deleted.
WithoutWhitespace(q) == SelectSeq(q, NotWhitespace)

\* C12: stripAllWhitespace leaves the non-whitespace bytes of the content in
\* their order, the length being their number; the single pass of
\* StaticString.h and the repeated shift of StackString.h give the same
\* content and length on the same string.
C12_StripAllWhitespace ==
    IsStrip(op) =>
        /\ Content(s1) = WithoutWhitespace(Content(pre))
        /\ s1.string_length = Len(WithoutWhitespace(Content(pre)))
        /\ LET single == Str(sstr_strip_all_whitespace(Work(pre)).m)
               shifts == Str(ss_strip_all_whitespace(Work(pre)).m)
           IN  /\ single.string_length = shifts.string_length
               /\ Content(single) = Content(shifts)
\* Two whitespace bytes in a row in front of a letter, by repeated shifting.
C12_Witness ==
    /\ op = "ss_strip_all_whitespace" /\ pre.string_length = CAP
    /\ pre.static_string[0] \in Whitespace /\ pre.static_string[1] \in Whitespace
    /\ pre.static_string[2] \notin Whitespace
    /\ s1.string_length = 1 /\ s1.static_string[0] = pre.static_string[2]

\* C13: after a.copyFrom(b), a.equals(b) is true: a and b have the same length
\* and the same bytes, and b is as it was before the copy.
C13_CopyThenEquals ==
    /\ op = "sstr_equals_copied" =>
          /\ ret = 1
          /\ s1.string_length = s2.string_length /\ Content(s1) = Content(s2)
          /\ s2 = pre2
    /\ op = "sstr_equals_copied_to" =>
          /\ ret = 1
          /\ s2.string_length = s1.string_length /\ Content(s2) = Content(s1)
          /\ s1 = pre
    /\ op = "sstr_copy" => s2 = pre2 /\ Content(s1) = Content(pre2)
    /\ op = "sstr_copy_to" => s1 = pre /\ Content(s2) = Content(pre)
\* A source of full length copied over a destination, then compared.
C13_Witness ==
    /\ op = "sstr_equals_copied_to" /\ ret = 1
    /\ s1.string_length = CAP /\ s2.string_length = CAP
    /\ s1.static_string[CAP - 1] # NUL

IsEqualsCstr(name) == name \in {"sstr_equals_cstr", "ss_equals_cstr"}

\* C14: equalsSource given a NULL source returns false on every string, the
\* empty one included, without reading through the pointer.
C14_EqualsCstrNull ==
    IsEqualsCstr(op) /\ args.cstr.null =>
        returned /\ fault = "none" /\ ret = 0

\* C15: fromSource, appendSequence and equalsSource given a NULL source never
\* read through it and leave length and buffer as they were.
C15_NullSource ==
    (IsFromCstr(op) \/ IsAppendCstr(op) \/ IsEqualsCstr(op)) /\ args.cstr.null =>
        returned /\ fault = "none" /\ s1 = pre

IsReverse(name) == name \in {"sstr_reverse", "ss_reverse"}

\* C16: reverse keeps the length and puts old buffer[length - 1 - i] at
\* buffer[i] for every i < length; the terminator at buffer[length] is not
\* touched; on the empty string nothing changes and no index below 0 is
\* computed.
C16_Reverse ==
    IsReverse(op) =>
        /\ returned
        /\ s1.string_length = pre.string_length
        /\ \A i \in 0 .. pre.string_length - 1 :
              s1.static_string[i] = pre.static_string[pre.string_length - 1 - i]
        /\ s1.static_string[pre.string_length] = pre.static_string[pre.string_length]
        /\ pre.string_length \notin w
        /\ InBuffer(w) /\ InBuffer(rd)
        /\ pre.string_length = 0 => s1 = pre /\ w = {} /\ rd = {}

IsClear(name) == name \in {"sstr_clear", "ss_clear"}

\* C17: clear, whatever the buffer held before, sets the length to 0 and
\* every buffer byte, indices 0 through CAP, to 0.
C17_Clear ==
    IsClear(op) =>
        /\ s1.string_length = 0
        /\ \A i \in 0 .. CAP : s1.static_string[i] = NUL

\* The arguments substring accepts: start <= end < length of the source.
InRange(source, start, end) == start <= end /\ end < source.string_length
\* source[start .. end]
Slice(source, start, end) == SubSeq(Content(source), start + 1, end + 1)

\* C18: substring(start, end) with start <= end < length of the source makes
\* the destination the bytes source[start .. end], terminated, of length
\* end - start + 1, returns 1 and leaves the source alone; otherwise it returns
\* 0 and leaves the destination's length and bytes alone.  (When source and
\* destination are one struct, the destination part is what is checked.)
C18_Substring ==
    /\ op = "sstr_substring" =>
          IF InRange(pre, args.index, args.end)
          THEN /\ ret = 1
               /\ s2.string_length = args.end - args.index + 1
               /\ Content(s2) = Slice(pre, args.index, args.end)
               /\ s2.static_string[s2.string_length] = NUL
               /\ s1 = pre
          ELSE ret = 0 /\ s2 = pre2 /\ s1 = pre
    /\ op = "sstr_substring_into" =>
          IF InRange(pre2, args.index, args.end)
          THEN /\ ret = 1
               /\ s1.string_length = args.end - args.index + 1
               /\ Content(s1) = Slice(pre2, args.index, args.end)
               /\ s1.static_string[s1.string_length] = NUL
               /\ s2 = pre2
          ELSE ret = 0 /\ s1 = pre /\ s2 = pre2
    /\ op = "sstr_substring_alias" =>
          IF InRange(pre, args.index, args.end)
          THEN /\ ret = 1
               /\ s1.string_length = args.end - args.index + 1
               /\ Content(s1) = Slice(pre, args.index, args.end)
               /\ s1.static_string[s1.string_length] = NUL
          ELSE ret = 0 /\ s1 = pre
\* The last two bytes of a three-byte source, written over a longer destination.
C18_Witness ==
    /\ op = "sstr_substring" /\ ret = 1
    /\ args.index = 1 /\ args.end = 2
    /\ pre2.string_length = CAP /\ s2.string_length = 2
    /\ s2.static_string[0] # pre2.static_string[0]

\* C19: whenever a.equals(b) is true (b = a included), on strings reached by
\* any calls with any byte arguments, byte 0 included,
\* a.equalsSource(b.toRawView()) is true as well: the C string in b's buffer
\* is exactly b's length bytes.
C19_EqualsCstrOfToCstr ==
    op = "sstr_equals_cstr_to_cstr" =>
        /\ ret = 1
        /\ RawView(s2) = Content(s2)
====
